---- MODULE Spec2Model ----
(***************************************************************************)
(* Model of quizapp.py: the Streamlit quiz generator.  One behaviour is    *)
(* one user session; every action is one complete script run (Streamlit    *)
(* re-executes main() on every interaction).                               *)
(*                                                                         *)
(* Texts are sequences of one-character strings.  The token JsonDoc stands *)
(* for one maximal chunk of well-formed JSON text inside a response; the   *)
(* value that chunk parses to is carried beside the text (resp.body).      *)
(***************************************************************************)
EXTENDS Integers, Sequences, FiniteSets, TLC

VARIABLES
    apiKey,             \* GOOGLE_API_KEY is set in the environment
    questions,          \* st.session_state.questions
    corrected_answers,  \* st.session_state.corrected_answers
    display,            \* what the last script run left on the page
    messages,           \* st.error / st.warning / st.success of the last run
    score,              \* the final score line of the last run
    requests,           \* generate_content calls issued by the last run
    fetched,            \* what fetch_questions returned in the last run
    cleaned_response,   \* the text the last run handed to json.loads
    raised,             \* the exception that ended the last run, or "none"
    lastEvent           \* the interaction that triggered the last run

vars == <<apiKey, questions, corrected_answers, display, messages, score,
          requests, fetched, cleaned_response, raised, lastEvent>>

\* ---------------------------------------------------------------- bounds

\* Longest mcqs list of arbitrary questions the service returns.
MaxQ == 2

\* Longest run of whitespace around a response text or a fence marker.
MaxPad == 1

\* The number of questions the prompt asks for (line 37).
QuizSize == 3

\* ----------------------------------------------------------------- texts

JsonDoc == "<json>"

\* The grave accent, U+0060 (the character of a markdown code fence).
Tick == "U+0060"

\* The prefix removed at line 71: three grave accents and the word json.
FenceOpen == <<Tick, Tick, Tick, "j", "s", "o", "n">>

\* The suffix removed at line 71: three grave accents.
FenceClose == <<Tick, Tick, Tick>>

IsSpace(c) == c = " "

RECURSIVE LStrip(_)
LStrip(s) ==
    IF s # <<>> /\ IsSpace(Head(s)) THEN LStrip(Tail(s)) ELSE s

RECURSIVE RStrip(_)
RStrip(s) ==
    IF s # <<>> /\ IsSpace(s[Len(s)]) THEN RStrip(SubSeq(s, 1, Len(s) - 1)) ELSE s

\* str.strip()
Strip(s) == RStrip(LStrip(s))

StartsWith(s, p) == Len(s) >= Len(p) /\ SubSeq(s, 1, Len(p)) = p

EndsWith(s, p) == Len(s) >= Len(p) /\ SubSeq(s, Len(s) - Len(p) + 1, Len(s)) = p

\* str.removeprefix(p)
RemovePrefix(s, p) == IF StartsWith(s, p) THEN SubSeq(s, Len(p) + 1, Len(s)) ELSE s

\* str.removesuffix(p)
RemoveSuffix(s, p) == IF EndsWith(s, p) THEN SubSeq(s, 1, Len(s) - Len(p)) ELSE s

LowerChar(c) == IF c = "P" THEN "p" ELSE IF c = "L" THEN "l" ELSE c

\* str.lower()
Lower(s) == [i \in 1..Len(s) |-> LowerChar(s[i])]

\* ------------------------------------------------------- quiz questions

\* An entry of a JSON options object: a letter and its display text.
Opt(k, v) == [k |-> k, v |-> v]

\* The JSON values a parsed question can be.  obj: it is a JSON object (not
\* a string, number, list or null); hasMcq: it has the "mcq" key;
\* options.kind: "absent" or "dict" (entries in document order);
\* correct.kind: "absent", "key" (a string) or "unhashable" (a list or an
\* object).
Question(obj, hasMcq, okind, entries, ckind, key) ==
    [obj |-> obj, hasMcq |-> hasMcq,
     options |-> [kind |-> okind, entries |-> entries],
     correct |-> [kind |-> ckind, key |-> key]]

\* Paris, Lyon, and " paris": equal to Paris once trimmed and lower-cased.
OptsParis == <<Opt("a", <<"P">>), Opt("b", <<"L">>), Opt("c", <<" ", "p">>)>>

QGood == Question(TRUE, TRUE, "dict", OptsParis, "key", "a")

QNoText == Question(TRUE, FALSE, "dict", OptsParis, "key", "b")

QNoOptions == Question(TRUE, TRUE, "absent", <<>>, "key", "a")

QNoCorrect == Question(TRUE, TRUE, "dict", OptsParis, "absent", "")

QBadLetter == Question(TRUE, TRUE, "dict", OptsParis, "key", "d")

QUnhashable == Question(TRUE, TRUE, "dict", OptsParis, "unhashable", "")

QNotObject == Question(FALSE, FALSE, "absent", <<>>, "absent", "")

QShapes == {QGood, QNoText, QNoOptions, QNoCorrect, QBadLetter, QUnhashable,
            QNotObject}

\* The mcqs lists of the model: every list of up to MaxQ questions, and one
\* question repeated QuizSize times.
QLists ==
    UNION {[1..n -> QShapes] : n \in 0..MaxQ}
        \cup {[i \in 1..QuizSize |-> q] : q \in QShapes}

HasKey(entries, k) == \E i \in 1..Len(entries) : entries[i].k = k

\* dict[k] for a key that is present
Lookup(entries, k) == entries[CHOOSE i \in 1..Len(entries) : entries[i].k = k].v

Answer(v) == [exc |-> "none", v |-> v]

Raise(exc) == [exc |-> exc, v |-> <<>>]

\* q["options"][q["correct"]] (line 134): the option text, or the exception
\* the subscripts raise, evaluated left to right.
CorrectAnswerFirstOption(q) ==
    IF ~q.obj THEN Raise("TypeError")
    ELSE IF q.options.kind = "absent" THEN Raise("KeyError")
    ELSE IF q.correct.kind = "absent" THEN Raise("KeyError")
    ELSE IF q.correct.kind = "unhashable" THEN Raise("TypeError")
    ELSE IF ~HasKey(q.options.entries, q.correct.key) THEN Raise("KeyError")
    ELSE Answer(q.options.entries[1].v)

CorrectAnswer(q) ==
    IF ~q.obj THEN Raise("TypeError")
    ELSE IF q.options.kind = "absent" THEN Raise("KeyError")
    ELSE IF q.correct.kind = "absent" THEN Raise("KeyError")
    ELSE IF q.correct.kind = "unhashable" THEN Raise("TypeError")
    ELSE IF ~HasKey(q.options.entries, q.correct.key) THEN Raise("KeyError")
    ELSE Answer(Lookup(q.options.entries, q.correct.key))

\* The list comprehension of lines 133-135: the answers, or the exception
\* of the first question that raises one.
RECURSIVE ExtractAnswers(_)
ExtractAnswers(qs) ==
    IF qs = <<>> THEN Answer(<<>>)
    ELSE LET a == CorrectAnswer(Head(qs))
         IN  IF a.exc # "none" THEN a
             ELSE LET rest == ExtractAnswers(Tail(qs))
                  IN  IF rest.exc # "none" THEN rest
                      ELSE Answer(<<a.v>> \o rest.v)

\* ------------------------------------------------------ service responses

AbsentMcqs == [kind |-> "absent", items |-> <<>>]

NoBody == [top |-> "none", mcqs |-> AbsentMcqs]

\* What the JSON chunk of a response parses to: its top-level type and,
\* for an object, its "mcqs" member ("absent", a "list", or "other").
McqsValues ==
    {AbsentMcqs, [kind |-> "other", items |-> <<>>]}
        \cup {[kind |-> "list", items |-> qs] : qs \in QLists}

Bodies ==
    {[top |-> t, mcqs |-> AbsentMcqs] : t \in {"array", "scalar"}}
        \cup {[top |-> "object", mcqs |-> m] : m \in McqsValues}

Pads == UNION {[1..n -> {" "}] : n \in 0..MaxPad}

\* What may precede and follow the middle of a response text: whitespace,
\* with or without a fence marker in it.
Prefixes == Pads \cup {a \o FenceOpen \o b : a \in Pads, b \in Pads}

Suffixes == Pads \cup {a \o FenceClose \o b : a \in Pads, b \in Pads}

\* The middle: a JSON chunk, truncated JSON, or nothing.
Middles == {<<JsonDoc>>, <<"{">>, <<>>}

Texts == {pre \o mid \o post : pre \in Prefixes, mid \in Middles, post \in Suffixes}

HasDoc(text) == \E i \in 1..Len(text) : text[i] = JsonDoc

NoResp == [kind |-> "none", text |-> <<>>, body |-> NoBody]

TextResponses(texts) ==
    {[kind |-> "text", text |-> t, body |-> NoBody] : t \in {x \in texts : ~HasDoc(x)}}
        \cup {[kind |-> "text", text |-> t, body |-> b] :
                  t \in {x \in texts : HasDoc(x)}, b \in Bodies}

\* Without text, generate_content raises ResourceExhausted ("quota") or
\* another error ("error"), or returns a response with no parts ("blocked").
Failures ==
    {[kind |-> k, text |-> <<>>, body |-> NoBody] : k \in {"quota", "error", "blocked"}}

\* Every response of the model.
AllResponses == Failures \cup TextResponses(Texts)

\* The responses a session meets: a bare JSON chunk, or truncated JSON.
Responses == Failures \cup TextResponses({<<JsonDoc>>, <<"{">>})

\* -------------------------------------------------------- fetch_questions

\* Line 71.
CleanNoSuffix(text) == Strip(RemovePrefix(Strip(text), FenceOpen))

Clean(text) == Strip(RemoveSuffix(RemovePrefix(Strip(text), FenceOpen), FenceClose))

\* json.loads (line 73): the text parses when it is exactly one JSON chunk.
JsonLoads(text, body) ==
    IF text = <<JsonDoc>> THEN [ok |-> TRUE, value |-> body]
    ELSE [ok |-> FALSE, value |-> NoBody]

Returned(list, msg, cleaned) ==
    [exc |-> "none", ret |-> list, msgs |-> msg, cleaned |-> cleaned]

Raising(exc, cleaned) ==
    [exc |-> exc, ret |-> <<>>, msgs |-> {}, cleaned |-> cleaned]

\* The try body, lines 60-80.
FetchTry(resp) ==
    IF resp.kind = "quota" THEN Raising("ResourceExhausted", <<>>)
    ELSE IF resp.kind = "error" THEN Raising("ServiceError", <<>>)
    ELSE IF resp.kind = "blocked" THEN Returned(<<>>, {"blocked"}, <<>>)
    ELSE LET cleaned == Clean(resp.text)
             parsed == JsonLoads(cleaned, resp.body)
         IN  IF ~parsed.ok THEN Raising("JSONDecodeError", cleaned)
             ELSE IF parsed.value.top # "object" THEN Raising("AttributeError", cleaned)
             ELSE LET mcqs == parsed.value.mcqs
                  IN  IF mcqs.kind # "list" \/ Len(mcqs.items) = 0
                      THEN Returned(<<>>, {"bad_structure"}, cleaned)
                      ELSE Returned(mcqs.items, {}, cleaned)

\* The except clauses in source order (lines 82, 88, 94): the class each
\* catches and the message it shows.
ExceptClausesGenericFirst ==
    <<[catches |-> "Exception", msg |-> "unexpected"],
      [catches |-> "JSONDecodeError", msg |-> "parse_failed"],
      [catches |-> "ResourceExhausted", msg |-> "rate_limit"]>>

ExceptClausesNoGeneric ==
    <<[catches |-> "JSONDecodeError", msg |-> "parse_failed"],
      [catches |-> "ResourceExhausted", msg |-> "rate_limit"]>>

ExceptClauses ==
    <<[catches |-> "JSONDecodeError", msg |-> "parse_failed"],
      [catches |-> "ResourceExhausted", msg |-> "rate_limit"],
      [catches |-> "Exception", msg |-> "unexpected"]>>

\* isinstance(exc, class): every exception here derives from Exception.
Catches(class, exc) == class = "Exception" \/ class = exc

\* The whole of fetch_questions: the try body, then the first matching
\* except clause, which shows its message and returns [].
fetch_questions(resp) ==
    LET t == FetchTry(resp)
        hits == {i \in 1..Len(ExceptClauses) : Catches(ExceptClauses[i].catches, t.exc)}
    IN  IF t.exc = "none" THEN t
        ELSE IF hits = {} THEN t
        ELSE LET first == CHOOSE i \in hits : \A j \in hits : i <= j
             IN  Returned(<<>>, {ExceptClauses[first].msg}, t.cleaned)

\* ------------------------------------------------------------ the form

\* A radio's value: None until an option is picked (index=None, line 154).
None == [chosen |-> FALSE, text |-> <<>>]

Chosen(text) == [chosen |-> TRUE, text |-> text]

\* list(q.get("options", {}).values()), line 152
OptionTexts(q) == {q.options.entries[i].v : i \in 1..Len(q.options.entries)}

AllChoices == {None} \cup {Chosen(t) : t \in UNION {OptionTexts(q) : q \in QShapes}}

\* The user_selections a user can submit for the displayed quiz.
Selections(qs) ==
    {sel \in [1..Len(qs) -> AllChoices] :
        \A i \in 1..Len(qs) : sel[i] = None \/ sel[i].text \in OptionTexts(qs[i])}

\* Lines 144-158: no form without stored questions; q.get raises
\* AttributeError on a question that is not an object.
RenderForm(qs) ==
    IF qs = <<>> THEN [display |-> "none", exc |-> "none"]
    ELSE IF \E i \in 1..Len(qs) : ~qs[i].obj
         THEN [display |-> "exception", exc |-> "AttributeError"]
         ELSE [display |-> "form", exc |-> "none"]

\* The pages on which the form and its submit button are drawn.
FormDisplays == {"form", "form+warning", "form+score", "form+exception"}

\* Line 162: None in user_selections.values()
AllUnanswered(sel) == \A i \in 1..Len(sel) : sel[i] = None

AnyUnanswered(sel) == \E i \in 1..Len(sel) : sel[i] = None

\* Line 177: str(selected).strip().lower() == str(correct).strip().lower()
ScoreMatchExact(selected, correct) == selected = correct

ScoreMatch(selected, correct) == Lower(Strip(selected)) = Lower(Strip(correct))

\* The scoring loop, lines 169-182, from question i on.
RECURSIVE ScoreLoop(_, _, _, _, _)
ScoreLoop(qs, answers, sel, i, marks) ==
    IF i > Len(qs) THEN [exc |-> "none", marks |-> marks]
    ELSE IF i > Len(answers) THEN [exc |-> "IndexError", marks |-> marks]
    ELSE IF ~qs[i].hasMcq THEN [exc |-> "KeyError", marks |-> marks]
    ELSE ScoreLoop(qs, answers, sel, i + 1,
                   marks + (IF ScoreMatch(sel[i].text, answers[i]) THEN 1 ELSE 0))

NoScore == [marks |-> 0, total |-> 0]

\* ------------------------------------------------------------ the session

Event(type, textEmpty, resp, sel) ==
    [type |-> type, textEmpty |-> textEmpty, resp |-> resp, sel |-> sel]

\* The first script run of a session: both keys are set to [] (lines
\* 106-107); without the API key the run stops at line 110.
Init ==
    /\ apiKey \in BOOLEAN
    /\ questions = <<>>
    /\ corrected_answers = <<>>
    /\ display = IF apiKey THEN "none" ELSE "stopped"
    /\ messages = IF apiKey THEN {} ELSE {"no_api_key"}
    /\ score = NoScore
    /\ requests = 0
    /\ fetched = <<>>
    /\ cleaned_response = <<>>
    /\ raised = "none"
    /\ lastEvent = Event("load", FALSE, NoResp, <<>>)

\* A rerun without the API key: st.stop() at line 110, before any widget.
Stopped ==
    /\ ~apiKey
    /\ display' = "stopped"
    /\ messages' = {"no_api_key"}
    /\ score' = NoScore
    /\ requests' = 0
    /\ fetched' = <<>>
    /\ cleaned_response' = <<>>
    /\ raised' = "none"
    /\ lastEvent' = Event("load", FALSE, NoResp, <<>>)
    /\ UNCHANGED <<apiKey, questions, corrected_answers>>

\* The generate button with an empty text area: lines 121-126, 140-141,
\* then the form section with nothing stored.
GenerateEmpty ==
    /\ apiKey
    /\ questions' = <<>>
    /\ corrected_answers' = <<>>
    /\ display' = RenderForm(<<>>).display
    /\ messages' = {"empty_input"}
    /\ score' = NoScore
    /\ requests' = 0
    /\ fetched' = <<>>
    /\ cleaned_response' = <<>>
    /\ raised' = "none"
    /\ lastEvent' = Event("generate", TRUE, NoResp, <<>>)
    /\ UNCHANGED apiKey

\* The generate button with text, the service answering resp: lines
\* 121-139, then the form section (lines 144-158) unless an exception
\* ended the run.
Generate(resp) ==
    \E f \in {fetch_questions(resp)} :
    \E a \in {ExtractAnswers(f.ret)} :
    \E stored \in {IF f.exc = "none" /\ f.ret # <<>> /\ a.exc # "KeyError"
                   THEN f.ret ELSE <<>>} :
    \E exc \in {IF f.exc # "none" THEN f.exc
                ELSE IF f.ret # <<>> /\ a.exc \notin {"none", "KeyError"} THEN a.exc
                ELSE "none"} :
    \E form \in {RenderForm(stored)} :
        /\ apiKey
        /\ questions' = stored
        /\ corrected_answers' = IF exc = "none" /\ stored # <<>> THEN a.v ELSE <<>>
        /\ display' = IF exc # "none" THEN "exception" ELSE form.display
        /\ messages' = f.msgs \cup
                (IF f.exc # "none" \/ f.ret = <<>> THEN {}
                 ELSE IF a.exc = "none" THEN {"success"}
                 ELSE IF a.exc = "KeyError" THEN {"invalid_structure"}
                 ELSE {})
        /\ score' = NoScore
        /\ requests' = 1
        /\ fetched' = f.ret
        /\ cleaned_response' = f.cleaned
        /\ raised' = IF exc # "none" THEN exc ELSE form.exc
        /\ lastEvent' = Event("generate", FALSE, resp, <<>>)
        /\ UNCHANGED apiKey

\* The submit button of the displayed form, the radios holding sel: lines
\* 144-184.  Nothing is written to the session state.
Submit(sel) ==
    LET form == RenderForm(questions)
        unanswered == AnyUnanswered(sel)
        loop == ScoreLoop(questions, corrected_answers, sel, 1, 0)
        scored == form.exc = "none" /\ ~unanswered /\ loop.exc = "none"
    IN  /\ apiKey
        /\ display \in FormDisplays
        /\ display' = IF form.exc # "none" THEN "exception"
                      ELSE IF unanswered THEN "form+warning"
                      ELSE IF loop.exc # "none" THEN "form+exception"
                      ELSE "form+score"
        /\ messages' = IF form.exc = "none" /\ unanswered THEN {"unanswered"} ELSE {}
        /\ score' = IF scored THEN [marks |-> loop.marks, total |-> Len(questions)]
                    ELSE NoScore
        /\ requests' = 0
        /\ fetched' = <<>>
        /\ cleaned_response' = <<>>
        /\ raised' = IF form.exc # "none" THEN form.exc
                     ELSE IF unanswered THEN "none" ELSE loop.exc
        /\ lastEvent' = Event("submit", FALSE, NoResp, sel)
        /\ UNCHANGED <<apiKey, questions, corrected_answers>>

\* Any other interaction (editing the text, changing the level): the
\* script runs with both buttons False, lines 144-158 only.
Rerun ==
    LET form == RenderForm(questions)
    IN  /\ apiKey
        /\ display' = form.display
        /\ messages' = {}
        /\ score' = NoScore
        /\ requests' = 0
        /\ fetched' = <<>>
        /\ cleaned_response' = <<>>
        /\ raised' = form.exc
        /\ lastEvent' = Event("rerun", FALSE, NoResp, <<>>)
        /\ UNCHANGED <<apiKey, questions, corrected_answers>>

Next ==
    \/ Stopped
    \/ GenerateEmpty
    \/ \E resp \in Responses : Generate(resp)
    \/ \E sel \in Selections(questions) : Submit(sel)
    \/ Rerun

Spec == Init /\ [][Next]_vars

\* --------------------------------------------- fetch_questions on its own

\* A call of fetch_questions about to be made: the response the service
\* will give is drawn from every response of the model.
InitFetch ==
    /\ apiKey = TRUE
    /\ questions = <<>>
    /\ corrected_answers = <<>>
    /\ display = "none"
    /\ messages = {}
    /\ score = NoScore
    /\ requests = 0
    /\ fetched = <<>>
    /\ cleaned_response = <<>>
    /\ raised = "none"
    /\ lastEvent \in {Event("fetch", FALSE, resp, <<>>) : resp \in AllResponses}

\* fetch_questions runs to its return, or to the exception it lets through.
Fetch ==
    \E f \in {fetch_questions(lastEvent.resp)} :
        /\ requests = 0
        /\ requests' = 1
        /\ fetched' = f.ret
        /\ cleaned_response' = f.cleaned
        /\ messages' = f.msgs
        /\ raised' = f.exc
        /\ UNCHANGED <<apiKey, questions, corrected_answers, display, score, lastEvent>>

NextFetch == Fetch

SpecFetch == InitFetch /\ [][NextFetch]_vars

\* ----------------------------------------------------------------- claims

\* A question whose options mapping contains its correct letter.
ValidQuestion(q) ==
    /\ q.obj
    /\ q.options.kind = "dict"
    /\ q.correct.kind = "key"
    /\ \E i \in 1..Len(q.options.entries) : q.options.entries[i].k = q.correct.key

AfterGenerate == lastEvent.type = "generate" /\ ~lastEvent.textEmpty

\* C1: after a generate whose fetch returned a list of N valid questions,
\* the session state holds exactly that list and an answer key of N
\* entries, entry i being the option text under question i's correct letter.
C1_AnswerKeyParallel ==
    (AfterGenerate /\ fetched # <<>> /\ \A i \in 1..Len(fetched) : ValidQuestion(fetched[i]))
        => /\ questions = fetched
           /\ Len(corrected_answers) = Len(fetched)
           /\ \A i \in 1..Len(fetched) :
                \E j \in 1..Len(fetched[i].options.entries) :
                    /\ fetched[i].options.entries[j].k = fetched[i].correct.key
                    /\ corrected_answers[i] = fetched[i].options.entries[j].v

C1_Witness ==
    /\ AfterGenerate
    /\ fetched = [i \in 1..QuizSize |-> QNoText]
    /\ questions = fetched
    /\ corrected_answers = [i \in 1..QuizSize |-> <<"L">>]

\* C2: the session state is never half-populated: the stored question list
\* is empty or the stored answer key is as long as it.
C2_NeverHalfPopulated ==
    questions = <<>> \/ Len(corrected_answers) = Len(questions)

\* C3: a generate with empty text shows the empty-input error, issues no
\* request and leaves both stored values as they were; in particular a
\* quiz whose form was on the page is still stored.
C3_EmptyTextNoChange ==
    [][(/\ lastEvent'.type = "generate" /\ lastEvent'.textEmpty
        /\ display \in FormDisplays
        /\ Len(corrected_answers) = Len(questions))
          => /\ "empty_input" \in messages'
             /\ requests' = 0
             /\ questions' = questions
             /\ corrected_answers' = corrected_answers]_vars

\* The response parses to an object whose mcqs is a non-empty list.
ParsesToQuiz(resp, cleaned) ==
    /\ resp.kind = "text"
    /\ cleaned = <<JsonDoc>>
    /\ resp.body.top = "object"
    /\ resp.body.mcqs.kind = "list"
    /\ resp.body.mcqs.items # <<>>

\* C4: fetch_questions lets no exception through and returns a list: the
\* mcqs list when the fence-stripped response parses to an object whose
\* mcqs is a non-empty list, and the empty list in every other case.
C4_FetchTotal ==
    requests = 1 =>
        /\ raised = "none"
        /\ fetched = IF ParsesToQuiz(lastEvent.resp, cleaned_response)
                     THEN lastEvent.resp.body.mcqs.items ELSE <<>>
        /\ (fetched = <<>>) = (messages # {})

C4_Witness ==
    /\ requests = 1
    /\ lastEvent.resp.kind = "text"
    /\ lastEvent.resp.body.top = "array"
    /\ cleaned_response = <<JsonDoc>>
    /\ fetched = <<>>
    /\ messages = {"unexpected"}

Answered(sel) == \A i \in 1..Len(sel) : sel[i].chosen

\* C5: a submit with a question unanswered shows the warning, computes no
\* score and leaves both stored values as they were; a score is shown only
\* by a submit in which every question has a selection.
C5_UnansweredNoScore ==
    [][/\ (lastEvent'.type = "submit" /\ ~Answered(lastEvent'.sel))
            => /\ display' = "form+warning"
               /\ "unanswered" \in messages'
               /\ score' = NoScore
               /\ questions' = questions
               /\ corrected_answers' = corrected_answers
       /\ display' = "form+score"
            => (lastEvent'.type = "submit" /\ Answered(lastEvent'.sel))]_vars

C5_Witness ==
    /\ lastEvent.type = "submit"
    /\ Len(lastEvent.sel) = QuizSize
    /\ Cardinality({i \in 1..QuizSize : lastEvent.sel[i].chosen}) = 2
    /\ display = "form+warning"
    /\ questions # <<>>

\* C6: a quota error during a generate shows the rate-limit message and not
\* the generic one, fetch returns the empty list, both stored values are
\* empty, no form is shown, and exactly one request was issued.
C6_QuotaError ==
    (AfterGenerate /\ lastEvent.resp.kind = "quota")
        => /\ "rate_limit" \in messages
           /\ "unexpected" \notin messages
           /\ fetched = <<>>
           /\ questions = <<>>
           /\ corrected_answers = <<>>
           /\ display = "none"
           /\ raised = "none"
           /\ requests = 1

C6_Witness ==
    /\ AfterGenerate
    /\ lastEvent.resp.kind = "quota"
    /\ messages = {"rate_limit"}
    /\ questions = <<>>

\* Case-insensitive, whitespace-trimmed equality of two texts.
SameText(x, y) == Lower(Strip(x)) = Lower(Strip(y))

\* C7: a displayed score gives as marks the number of questions whose
\* selected text equals the answer key entry, trimmed and case-folded, and
\* as total the number of stored questions; the correct text selected for
\* every question gives full marks.
C7_Score ==
    display = "form+score"
        => /\ lastEvent.type = "submit"
           /\ Len(lastEvent.sel) = Len(questions)
           /\ score.total = Len(questions)
           /\ score.marks = Cardinality({i \in 1..Len(questions) :
                                SameText(lastEvent.sel[i].text, corrected_answers[i])})
           /\ 0 <= score.marks /\ score.marks <= score.total
           /\ (\A i \in 1..Len(questions) : lastEvent.sel[i].text = corrected_answers[i])
                => score.marks = score.total

C7_Witness ==
    /\ display = "form+score"
    /\ questions = [i \in 1..QuizSize |-> QGood]
    /\ \A i \in 1..QuizSize : lastEvent.sel[i] = Chosen(<<"P">>)
    /\ score = [marks |-> 3, total |-> 3]

\* C8: once the score is displayed, it is still displayed after a rerun
\* that neither button triggered.
C8_ScorePersists ==
    [][(display = "form+score" /\ lastEvent'.type = "rerun")
          => display' = "form+score"]_vars

\* Wrapping a payload in fence markers, whitespace around each.
Wrap(w1, w2, payload, w3, w4) ==
    w1 \o FenceOpen \o w2 \o payload \o w3 \o FenceClose \o w4

\* The fetch of the last response and the fetch of the same response with
\* its text wrapped in fence markers parse the same text and return the
\* same list.
WrapInvisible ==
    \A w1 \in Pads, w2 \in Pads, w3 \in Pads, w4 \in Pads :
        LET wrapped == [lastEvent.resp EXCEPT
                            !.text = Wrap(w1, w2, lastEvent.resp.text, w3, w4)]
            f == fetch_questions(wrapped)
        IN  f.cleaned = cleaned_response /\ f.ret = fetched /\ f.exc = raised

\* C9 as stated: for every payload, wrapped or not, the text parsed and the
\* fetch result are the same.
C9_EveryPayload ==
    (requests = 1 /\ lastEvent.resp.kind = "text") => WrapInvisible

\* The trimmed payload neither begins with the opening fence marker nor
\* ends with the closing one.
Unfenced(payload) ==
    /\ ~StartsWith(Strip(payload), FenceOpen)
    /\ ~EndsWith(Strip(payload), FenceClose)

\* C9 amended: for every payload that does not itself begin or end with a
\* fence marker, wrapped or not, the text parsed and the fetch result are
\* the same.
C9_UnfencedPayload ==
    (requests = 1 /\ lastEvent.resp.kind = "text" /\ Unfenced(lastEvent.resp.text))
        => WrapInvisible

C9_Witness ==
    /\ requests = 1
    /\ lastEvent.resp.text = <<" ", JsonDoc, " ">>
    /\ cleaned_response = <<JsonDoc>>
    /\ fetched = [i \in 1..QuizSize |-> QGood]
    /\ fetch_questions([lastEvent.resp EXCEPT
            !.text = Wrap(<<>>, <<" ">>, lastEvent.resp.text, <<>>, <<" ">>)]).ret = fetched

\* C10: an all-answered submit of a quiz that passed answer extraction
\* runs to its end and displays a score.
C10_SubmitCompletes ==
    (/\ lastEvent.type = "submit"
     /\ Answered(lastEvent.sel)
     /\ Len(corrected_answers) = Len(questions))
        => (display = "form+score" /\ raised = "none")

====
